---------------------------- MODULE Spec2Model ----------------------------
(***************************************************************************)
(* Frame transport of the cardiomyocyte tracking tool: the packet codec    *)
(* (src/src/comm_protocol/Packet.py), the TCP frame server's request       *)
(* handler (src/src/comm_protocol/server/FrameTCPServerRequestHandler.py), *)
(* the frame providers (pattern_tracking/proper/logic/video), the consumer *)
(* thread (src/pattern_tracking/logic/BackgroundComputation.py) and the    *)
(* older packet codec (src/raspberry_communication_protocol/Packet.py).    *)
(*                                                                         *)
(* SpecCodec     : a packet is constructed, serialized, optionally damaged *)
(*                 on the wire, and deserialized.                          *)
(* SpecCodecWide : the same for payloads with 4 or more channels.          *)
(* Spec          : one connection of the frame server, with a producer     *)
(*                 filling the frames queue and a client sending requests; *)
(*                 SpecFair adds the handler thread's fairness.            *)
(* SpecFramer    : one packet is framed from a byte stream.                *)
(* SpecReader    : a frame provider fills its queue; change_feed and halt; *)
(*                 SpecReaderFair adds the reader thread's fairness.       *)
(* SpecConsumer  : BackgroundComputation grabs and processes frames.       *)
(* SpecRaspi     : the older codec (raspberry_communication_protocol): a   *)
(*                 packet is constructed, serialized, optionally damaged   *)
(*                 on the wire, and deserialized.                          *)
(***************************************************************************)
EXTENDS Integers, Sequences, FiniteSets, TLC

VARIABLES
    pkt,        \* codec: the Packet object under test
    buf,        \* codec: the bytes on the wire
    mut,        \* codec: what was done to the bytes after serialize
    res,        \* codec: outcome of Packet.deserialize(buf)
    cstage,     \* codec: "built" -> "wire" -> "decoded"
    hpc,        \* handler: position in handle()
    frames_queue,           \* server.frames_queue (FIFO of <<frame_number, image>>)
    current_data_to_send,   \* server.current_data_to_send
    halt_server_event,      \* server.halt_server_event
    socket_closed,          \* server.socket has been closed
    peer_closed,            \* the client has closed its end of the connection
    inbound,    \* handler: the request bytes just framed from the connection
    sent,       \* handler: byte strings passed to request.sendall, in order
    taken,      \* handler: items obtained from frames_queue.get, in order
    hist,       \* handler: what each handled request was and did, in order
    produced,   \* producer: the items put in the frames queue so far, in order
    origin,     \* framer: what the peer wrote: garbage, one packet, garbage
    spos,       \* framer: number of bytes of the connection read so far
    fpc,        \* framer: position in the framing part of handle()
    sdata,      \* framer: data, read_start_word's result (its window while it scans)
    rest_data,  \* framer: read_until_end_word's result (its buffer while it reads)
    fout,       \* framer: data + rest_data, as handed to Packet.deserialize
    vr,         \* provider: the fields of the frame provider object
    run,        \* provider: the reader thread's position and locals
    cf,         \* provider: the change_feed call in progress, and its arguments
    halt_event, \* provider: the application's halt event
    provider_queue,     \* provider: the items of the queue get_frame reads
    puts,       \* provider: the last two items enqueued, with the run they are of
    bc,         \* consumer: position and locals of BackgroundComputation._run
    feed_queue, \* consumer: the items grab_frame can return, oldest first
    feed_resetting,     \* consumer: what is_feed_resetting() returns
    global_halt,        \* consumer: the global halt event
    fed,        \* consumer: number of frames the live feed has enqueued
    shown,      \* consumer: the passes that processed a frame, in order
    rpkt,       \* older codec: the Packet object under test
    rbuf,       \* older codec: the bytes on the wire
    rmut,       \* older codec: what was done to the bytes after serialize
    rres,       \* older codec: outcome of Packet.deserialize(rbuf)
    rstage,     \* older codec: "built" -> "wire" -> "decoded"
    int_size    \* older codec: bytes per element of NumPy's dtype=int

codecVars  == <<pkt, buf, mut, res, cstage>>
serverVars == <<hpc, frames_queue, current_data_to_send, halt_server_event,
                socket_closed, peer_closed, inbound, sent, taken, hist, produced>>
framerVars == <<origin, spos, fpc, sdata, rest_data, fout>>
readerVars == <<vr, run, cf, halt_event, provider_queue, puts>>
consumerVars == <<bc, feed_queue, feed_resetting, global_halt, fed, shown>>
raspiVars == <<rpkt, rbuf, rmut, rres, rstage, int_size>>
vars == <<pkt, buf, mut, res, cstage, hpc, frames_queue, current_data_to_send,
          halt_server_event, socket_closed, peer_closed, inbound, sent, taken,
          hist, produced,
          origin, spos, fpc, sdata, rest_data, fout,
          vr, run, cf, halt_event, provider_queue, puts,
          bc, feed_queue, feed_resetting, global_halt, fed, shown,
          rpkt, rbuf, rmut, rres, rstage, int_size>>

\* the variables of the other parts, which a part's actions leave alone
notCodecVars  == <<serverVars, framerVars, readerVars, consumerVars, raspiVars>>
notServerVars == <<codecVars, framerVars, readerVars, consumerVars, raspiVars>>
notFramerVars == <<codecVars, serverVars, readerVars, consumerVars, raspiVars>>
notReaderVars == <<codecVars, serverVars, framerVars, consumerVars, raspiVars>>
notConsumerVars == <<codecVars, serverVars, framerVars, readerVars, raspiVars>>
notRaspiVars == <<codecVars, serverVars, framerVars, readerVars, consumerVars>>

---------------------------------------------------------------------------
(* Bounds of the model *)

\* largest height / width of a generated payload
MaxDim == 2
\* largest payload, in bytes, of a generated packet
MaxBytes == 24
\* number of frames the producer puts in the frames queue
MaxFrames == 2
\* number of requests the client sends on the connection
MaxRequests == 3
\* number of garbage bytes before the packet on a framed connection
MaxGarbage == 3
\* number of frames a feed delivers before a read fails
MaxVideoLen == 2
\* largest max_frames_in_queue a provider is constructed with
MaxCapacity == 2
\* number of change_feed calls made on a VideoReader
MaxFeedChanges == 2
\* number of frames a FrameTCPClient receives
MaxReceived == 4
\* number of frames the live feed gives a BackgroundComputation
MaxFed == 3
\* number of passes of BackgroundComputation._run that process a frame
MaxPasses == 4
\* largest number of elements of a payload given to the older codec
MaxElems == 3

---------------------------------------------------------------------------
(* Integers as the code uses them *)

Min(a, b) == IF a < b THEN a ELSE b

RECURSIVE Pow2(_)
Pow2(n) == IF n = 0 THEN 1 ELSE 2 * Pow2(n - 1)

RECURSIVE Prod(_)
Prod(s) == IF s = <<>> THEN 1 ELSE Head(s) * Prod(Tail(s))

\* Python's a ^ b on non-negative integers
RECURSIVE Xor(_, _)
Xor(a, b) ==
    IF a = 0 THEN b
    ELSE IF b = 0 THEN a
    ELSE ((a + b) % 2) + 2 * Xor(a \div 2, b \div 2)

\* Python's a | b on non-negative integers
RECURSIVE BitOr(_, _)
BitOr(a, b) ==
    IF a = 0 THEN b
    ELSE IF b = 0 THEN a
    ELSE (IF a % 2 = 1 \/ b % 2 = 1 THEN 1 ELSE 0) + 2 * BitOr(a \div 2, b \div 2)

\* (variant of ToLE: the most significant byte comes first)
ToBE(n, k) == [i \in 1..k |-> (n \div Pow2(8 * (k - i))) % 256]
\* int.to_bytes(k, "little") / struct "<I", "<H"
ToLE(n, k) == [i \in 1..k |-> (n \div Pow2(8 * (i - 1))) % 256]

\* Packet.bytes_to_int with BYTE_ORDER = "little"
RECURSIVE bytes_to_int(_)
bytes_to_int(data) ==
    IF data = <<>> THEN 0 ELSE Head(data) + 256 * bytes_to_int(Tail(data))

\* Python's s[a:b] (0-based, clipped to the sequence)
PySlice(s, a, b) == SubSeq(s, a + 1, Min(b, Len(s)))

\* bin(n)[2:] : the binary digits of n, most significant first, no padding
RECURSIVE Bin(_)
Bin(n) == IF n < 2 THEN <<n>> ELSE Append(Bin(n \div 2), n % 2)

\* int(digits, 2) for a non-empty digit string
RECURSIVE IntBase2(_)
IntBase2(d) ==
    IF d = <<>> THEN 0 ELSE 2 * IntBase2(SubSeq(d, 1, Len(d) - 1)) + d[Len(d)]

---------------------------------------------------------------------------
(* Protocol constants, Packet.py lines 28-71 *)

PROTOCOL_VER == 2
BIT_LEN_PROTOCOL_VER == 2
BIT_LEN_PACKET_TYPE == 2
BIT_LEN_CHANNEL_COUNT == 2
LEN_START_MAGIC_WORD == 3
LEN_PROVER_PTYPE_CCOUNT_DTYPE == 1
LEN_FRAME_NUMBER == 4
LEN_FRAME_XY_SHAPE == 4
LEN_PAYLOAD_LENGTH == 4
LEN_PAYLOAD_CRC == 2
LEN_END_MAGIC_WORD == 4

\* b"INU" and b"NEKO"
START_MAGIC_WORD == <<73, 78, 85>>
END_MAGIC_WORD == <<78, 69, 75, 79>>

PAYLOAD_LEN_IDX ==
    LEN_START_MAGIC_WORD + LEN_PROVER_PTYPE_CCOUNT_DTYPE + LEN_FRAME_NUMBER
        + LEN_FRAME_XY_SHAPE

\* PacketType members (the enum is used through .value and PacketType(int))
PT_OK == 0
PT_FRAME == 1
PT_REQUEST == 2
PT_HALT == 3
PacketTypes == {PT_OK, PT_FRAME, PT_REQUEST, PT_HALT}

\* PacketDataType members: U8, I32, F32, F64
DT_U8 == 0
DataTypes == 0..3
\* bytes per element of each payload dtype
ItemSize(dt) == CASE dt = 0 -> 1 [] dt = 1 -> 4 [] dt = 2 -> 4 [] OTHER -> 8
\* PacketDataType.from_dtype : numpy dtype -> the 2-bit tag OR-ed into the header
from_dtype(dt) == [form |-> "bin", code |-> dt]
\* PacketDataType.from_bin_form : 2-bit tag -> numpy dtype
from_bin_form(code) == [form |-> "np", code |-> code]

---------------------------------------------------------------------------
(* NumPy arrays: a shape, a dtype and the row-major bytes (ndarray.tobytes) *)

NdArray(shape, dt, data) == [shape |-> shape, dtype |-> dt, data |-> data]
tobytes(a) == a.data
\* np.array((), dtype=uint8)
EmptyU8 == NdArray(<<0>>, DT_U8, <<>>)

\* fastcrc.crc16.arc : CRC-16/ARC, reflected polynomial 0xA001, init 0, xorout 0
\* x ^ 0xA001 for x < 2^15: bits 15, 13 and 0 are inverted
\* (variant of XorPoly: the reflected polynomial 0x8408 of CRC-16/KERMIT)
XorPolyKermit(x) ==
    x + 32768
      + (IF (x \div 1024) % 2 = 1 THEN -1024 ELSE 1024)
      + (IF (x \div 8) % 2 = 1 THEN -8 ELSE 8)
XorPoly(x) ==
    x + 32768
      + (IF (x \div 8192) % 2 = 1 THEN -8192 ELSE 8192)
      + (IF x % 2 = 1 THEN -1 ELSE 1)
CrcShift(c) == IF c % 2 = 1 THEN XorPoly(c \div 2) ELSE c \div 2
\* (each intermediate register is bound as an element of a one-element set,
\* so that it is computed once)
RECURSIVE CrcBits(_, _)
CrcBits(c, k) ==
    IF k = 0 THEN c
    ELSE CHOOSE r \in {CrcBits(c1, k - 1) : c1 \in {CrcShift(c)}} : TRUE
CrcByte(c, b) == CHOOSE r \in {CrcBits(x, 8) : x \in {Xor(c, b)}} : TRUE
\* the CRC register after bytes 1..k of data
RECURSIVE CrcUpTo(_, _)
CrcUpTo(data, k) ==
    IF k = 0 THEN 0
    ELSE CHOOSE r \in {CrcByte(c0, data[k]) : c0 \in {CrcUpTo(data, k - 1)}} : TRUE
\* (variant of crc16_arc: the last byte is left out of the checksum)
crc16_arc_short(data) == CrcUpTo(data, IF Len(data) = 0 THEN 0 ELSE Len(data) - 1)
crc16_arc(data) == CrcUpTo(data, Len(data))

---------------------------------------------------------------------------
(* class Packet *)

\* Packet.compute_crc, applied to the payload array
compute_crc(payload) == crc16_arc(tobytes(payload))

\* Packet.__init__
Packet(frame_number, packet_type, payload) ==
    [ frame_number        |-> frame_number,
      packet_type         |-> packet_type,
      payload_dtype       |-> from_dtype(payload.dtype),
      frame_shape         |-> IF payload.shape = <<0>> THEN <<0, 0>>
                              ELSE PySlice(payload.shape, 0, 2),
      frame_channel_count |-> IF Len(payload.shape) <= 2 THEN 1
                              ELSE payload.shape[3],
      payload             |-> payload,
      payload_crc         |-> compute_crc(payload) ]

\* Packet.payload_length
payload_length(p) == Len(tobytes(p.payload))

\* Packet.placeholder
placeholder == Packet(0, PT_OK, EmptyU8)

\* Packet.__eq__ (the payload elements are compared through their bytes)
PacketEq(a, b) ==
    /\ a.frame_number = b.frame_number
    /\ a.packet_type = b.packet_type
    /\ a.payload_crc = b.payload_crc
    /\ a.payload.shape = b.payload.shape
    /\ a.payload.data = b.payload.data

\* results of serialize / deserialize: a value, None, or a raised exception
NoPacket == [none |-> TRUE]
RetBytes(b) == [kind |-> "bytes", why |-> "", bytes |-> b]
RaiseSer(exc) == [kind |-> "raise", why |-> exc, bytes |-> <<>>]
RetPacket(p) == [kind |-> "packet", why |-> "", pkt |-> p]
RetNone(why) == [kind |-> "none", why |-> why, pkt |-> NoPacket]
Raise(exc) == [kind |-> "raise", why |-> exc, pkt |-> NoPacket]

\* (variant of HeaderByte: the dtype tag is left out of the header byte)
HeaderByteNoDtype(p) ==
    BitOr(BitOr(PROTOCOL_VER * 64, p.packet_type * 16), p.frame_channel_count * 4)

\* the header byte computed in serialize, lines 137-140
HeaderByte(p) ==
    BitOr(BitOr(BitOr(PROTOCOL_VER * 64, p.packet_type * 16),
                p.frame_channel_count * 4), p.payload_dtype.code)

\* number of bytes struct.pack / struct.unpack handle for a payload of n bytes
StructSize(n) ==
    LEN_START_MAGIC_WORD + LEN_PROVER_PTYPE_CCOUNT_DTYPE + LEN_FRAME_NUMBER
        + LEN_FRAME_XY_SHAPE + LEN_PAYLOAD_LENGTH + n + LEN_PAYLOAD_CRC
        + LEN_END_MAGIC_WORD

\* Packet.serialize
serialize(p) ==
    IF p.payload_dtype.form # "bin" THEN RaiseSer("TypeError")
    ELSE IF HeaderByte(p) > 255 THEN RaiseSer("OverflowError")
    ELSE IF \/ Len(PySlice(p.frame_shape, 0, 2)) # 2
            \/ p.frame_number < 0
            \/ \E i \in 1..Len(PySlice(p.frame_shape, 0, 2)) :
                    p.frame_shape[i] \notin 0..65535
            \/ p.payload_crc \notin 0..65535
         THEN RaiseSer("struct.error")
    ELSE RetBytes(
            START_MAGIC_WORD
            \o <<HeaderByte(p)>>
            \o ToLE(p.frame_number, 4)
            \o ToLE(PySlice(p.frame_shape, 0, 2)[1], 2)
            \o ToLE(PySlice(p.frame_shape, 0, 2)[2], 2)
            \o ToLE(payload_length(p), 4)
            \o tobytes(p.payload)
            \o ToLE(p.payload_crc, 2)
            \o END_MAGIC_WORD)

\* Packet.deserialize, lines 225-246: reshape, CRC check, field assignment
DecodeBody(raw, n, packet_type, frame_channel_count, dt) ==
    LET frame_number  == bytes_to_int(PySlice(raw, 4, 8))
        frame_x_shape == bytes_to_int(PySlice(raw, 8, 10))
        frame_y_shape == bytes_to_int(PySlice(raw, 10, 12))
        payload_bin   == PySlice(raw, 16, 16 + n)
        payload_crc   == bytes_to_int(PySlice(raw, 16 + n, 18 + n))
        shape == IF frame_channel_count = 1
                 THEN <<frame_x_shape, frame_y_shape>>
                 ELSE <<frame_x_shape, frame_y_shape, frame_channel_count>>
    IN  IF Len(payload_bin) % ItemSize(dt) # 0 THEN Raise("ValueError")
        ELSE IF Prod(shape) # Len(payload_bin) \div ItemSize(dt) THEN Raise("ValueError")
        ELSE IF payload_crc # crc16_arc(payload_bin) THEN RetNone("crc")
        ELSE RetPacket(
                [ placeholder EXCEPT
                    !.packet_type = packet_type,
                    !.frame_channel_count = frame_channel_count,
                    !.frame_number = frame_number,
                    !.frame_shape = shape,
                    !.payload = NdArray(shape, dt, payload_bin),
                    !.payload_dtype = from_bin_form(dt),
                    !.payload_crc = payload_crc ])

\* Packet.deserialize, lines 195-223: the header byte read through its bit string
DecodeHeader(raw, n) ==
    LET bits == Bin(raw[4])
        proto_ver == PySlice(bits, 0, BIT_LEN_PROTOCOL_VER)
        packet_type_bin ==
            PySlice(bits, BIT_LEN_PROTOCOL_VER, BIT_LEN_PROTOCOL_VER + BIT_LEN_PACKET_TYPE)
        channel_bin ==
            PySlice(bits, BIT_LEN_PROTOCOL_VER + BIT_LEN_PACKET_TYPE,
                    BIT_LEN_PROTOCOL_VER + BIT_LEN_PACKET_TYPE + BIT_LEN_CHANNEL_COUNT)
        dtype_bin ==
            PySlice(bits, BIT_LEN_PROTOCOL_VER + BIT_LEN_PACKET_TYPE + BIT_LEN_CHANNEL_COUNT,
                    Len(bits))
    IN  IF IntBase2(proto_ver) # PROTOCOL_VER THEN RetNone("protocol")
        ELSE IF packet_type_bin = <<>> THEN Raise("ValueError")
        ELSE IF channel_bin = <<>> THEN Raise("ValueError")
        ELSE IF dtype_bin = <<>> THEN Raise("ValueError")
        ELSE DecodeBody(raw, n, IntBase2(packet_type_bin), IntBase2(channel_bin),
                        IntBase2(dtype_bin))

\* Packet.deserialize
deserialize(raw_packet) ==
    LET n == bytes_to_int(PySlice(raw_packet, PAYLOAD_LEN_IDX,
                                  PAYLOAD_LEN_IDX + LEN_PAYLOAD_LENGTH))
    IN  IF Len(raw_packet) # StructSize(n) THEN Raise("struct.error")
        ELSE DecodeHeader(raw_packet, n)

---------------------------------------------------------------------------
(* Inputs of the codec specification *)

\* payload contents: every byte 4 (the array of __main__), or a ramp of bytes
FillByte(f, i) == IF f = "fours" THEN 4 ELSE (37 * i + 11) % 256
Filled(shape, dt, f) ==
    NdArray(shape, dt, [i \in 1..(Prod(shape) * ItemSize(dt)) |-> FillByte(f, i)])

\* (h, w) and (h, w, c) arrays, c = 1..3
Shapes ==
    {<<h, w>> : h \in 1..MaxDim, w \in 1..MaxDim}
        \cup {<<hw[1], hw[2], c>> : hw \in (1..MaxDim) \X (1..MaxDim), c \in 1..3}

\* np.full((2, 2, 3), 4, dtype=np.uint8), the payload of __main__
MainPayload == Filled(<<2, 2, 3>>, DT_U8, "fours")

Arrays ==
    {EmptyU8, MainPayload} \cup
    {Filled(x[1], x[2], "ramp") : x \in
        {y \in Shapes \X DataTypes : Prod(y[1]) * ItemSize(y[2]) <= MaxBytes}}

\* 0 and the largest frame number whose four bytes TLC's 32-bit integers hold
FrameNumbers == {0, (Pow2(30) - 1) * 2 + 1}

\* p = Packet(0xFA, PacketType.FRAME, og_payload), the packet of __main__
MainPacket == Packet(250, PT_FRAME, MainPayload)

NotDecoded == [kind |-> "pending", why |-> "", pkt |-> NoPacket]

ServerIdle ==
    /\ hpc = "off"
    /\ frames_queue = <<>>
    /\ current_data_to_send = <<>>
    /\ halt_server_event = FALSE
    /\ socket_closed = FALSE
    /\ peer_closed = FALSE
    /\ inbound = <<>>
    /\ sent = <<>>
    /\ taken = <<>>
    /\ hist = <<>>
    /\ produced = <<>>

\* the framer is not running
FramerIdle ==
    /\ origin = <<>>
    /\ spos = 0
    /\ fpc = "off"
    /\ sdata = <<>>
    /\ rest_data = <<>>
    /\ fout = <<>>

\* no frame provider has been constructed
ReaderIdle ==
    /\ vr = <<>>
    /\ run = <<>>
    /\ cf = <<>>
    /\ halt_event = FALSE
    /\ provider_queue = <<>>
    /\ puts = <<>>

\* no BackgroundComputation has been started
ConsumerIdle ==
    /\ bc = <<>>
    /\ feed_queue = <<>>
    /\ feed_resetting = FALSE
    /\ global_halt = FALSE
    /\ fed = 0
    /\ shown = <<>>

\* the older codec (raspberry_communication_protocol) is not in use
RaspiIdle ==
    /\ rpkt = <<>>
    /\ rbuf = <<>>
    /\ rmut = "none"
    /\ rres = <<>>
    /\ rstage = "off"
    /\ int_size = 8

InitCodec ==
    /\ pkt \in {MainPacket} \cup
            {Packet(fn, t, a) : <<fn, t, a>> \in FrameNumbers \X PacketTypes \X Arrays}
    /\ buf = <<>>
    /\ mut = "none"
    /\ res = NotDecoded
    /\ cstage = "built"
    /\ ServerIdle
    /\ FramerIdle
    /\ ReaderIdle
    /\ ConsumerIdle
    /\ RaspiIdle

\* s = packet.serialize()
Serialize ==
    /\ cstage = "built"
    /\ LET s == serialize(pkt)
       IN  IF s.kind = "bytes"
           THEN buf' = s.bytes /\ cstage' = "wire"
           ELSE buf' = <<>> /\ cstage' = "serialize_raised"
    /\ UNCHANGED <<pkt, mut, res>>
    /\ UNCHANGED notCodecVars

Damage(newbuf, what) ==
    /\ cstage = "wire"
    /\ mut = "none"
    /\ buf' = newbuf
    /\ mut' = what
    /\ UNCHANGED <<pkt, res, cstage>>
    /\ UNCHANGED notCodecVars

\* one bit of one payload byte is inverted in transit
FlipPayloadBit ==
    \E i \in 1..payload_length(pkt), b \in 0..7 :
        Damage([buf EXCEPT ![16 + i] = Xor(@, Pow2(b))], "flip")

\* bits 7..6 of the header byte are replaced by another version
SetVersionBits ==
    \E v \in {0, 1, 3} :
        Damage([buf EXCEPT ![4] = v * 64 + (@ % 64)], "version")

\* one byte of the start word / of the end word is replaced
BreakStartWord ==
    \E i \in 1..LEN_START_MAGIC_WORD, x \in {0, 105} :
        Damage([buf EXCEPT ![i] = x], "start_word")

BreakEndWord ==
    \E i \in 1..LEN_END_MAGIC_WORD, x \in {0, 110} :
        Damage([buf EXCEPT ![Len(buf) - LEN_END_MAGIC_WORD + i] = x], "end_word")

\* the payload_length field is rewritten, the payload bytes stay
SetLengthField ==
    \E n \in {payload_length(pkt) + 1, payload_length(pkt) - 1, 0, 1} :
        /\ n >= 0
        /\ n # payload_length(pkt)
        /\ Damage(SubSeq(buf, 1, PAYLOAD_LEN_IDX) \o ToLE(n, LEN_PAYLOAD_LENGTH)
                    \o SubSeq(buf, PAYLOAD_LEN_IDX + LEN_PAYLOAD_LENGTH + 1, Len(buf)),
                  "length_field")

\* a payload byte is lost, or a byte is added after the payload
DropPayloadByte ==
    /\ payload_length(pkt) > 0
    /\ Damage(SubSeq(buf, 1, 16) \o SubSeq(buf, 18, Len(buf)), "payload_short")

AddPayloadByte ==
    \E x \in {0, 255} :
        Damage(SubSeq(buf, 1, 16 + payload_length(pkt)) \o <<x>>
                 \o SubSeq(buf, 17 + payload_length(pkt), Len(buf)), "payload_long")

\* the width field, the height field or the channel bits of the header byte
\* are rewritten; framing, version, payload and CRC stay
SetShapeField ==
    /\ cstage = "wire"
    /\ \/ \E i \in {9, 11}, x \in {0, 1, 3} :
            /\ buf[i] # x
            /\ Damage([buf EXCEPT ![i] = x], "shape")
       \/ \E c \in 0..3 :
            /\ (buf[4] \div 4) % 4 # c
            /\ Damage([buf EXCEPT ![4] = (@ \div 16) * 16 + c * 4 + (@ % 4)], "shape")

\* the stored CRC is altered
BreakCrcField ==
    Damage([buf EXCEPT ![17 + payload_length(pkt)] = Xor(@, 1)], "crc_field")

\* pds = Packet.deserialize(s)
Deserialize ==
    /\ cstage = "wire"
    /\ res' = deserialize(buf)
    /\ cstage' = "decoded"
    /\ UNCHANGED <<pkt, buf, mut>>
    /\ UNCHANGED notCodecVars

NextCodec ==
    \/ Serialize
    \/ FlipPayloadBit
    \/ SetVersionBits
    \/ BreakStartWord
    \/ BreakEndWord
    \/ SetLengthField
    \/ DropPayloadByte
    \/ AddPayloadByte
    \/ SetShapeField
    \/ BreakCrcField
    \/ Deserialize

SpecCodec == InitCodec /\ [][NextCodec]_vars

\* payloads outside the protocol's data model that Packet.__init__ accepts
\* all the same: arrays with 4 or more channels (one pixel of c channels, and
\* an array of no pixel whose third axis is 64), of at most MaxBytes bytes
WideChannels == {4, 5, 16}
WideArrays ==
    {Filled(x[1], x[2], "ramp") : x \in
        {y \in {<<1, 1, c>> : c \in WideChannels} \X {0, 1} :
            Prod(y[1]) * ItemSize(y[2]) <= MaxBytes}}
        \cup {Filled(<<1, 0, 64>>, DT_U8, "ramp")}

InitCodecWide ==
    /\ pkt \in {Packet(fn, t, a) : <<fn, t, a>> \in FrameNumbers \X PacketTypes \X WideArrays}
    /\ buf = <<>>
    /\ mut = "none"
    /\ res = NotDecoded
    /\ cstage = "built"
    /\ ServerIdle
    /\ FramerIdle
    /\ ReaderIdle
    /\ ConsumerIdle
    /\ RaspiIdle

SpecCodecWide == InitCodecWide /\ [][NextCodec]_vars

---------------------------------------------------------------------------
(* FrameTCPServerRequestHandler: one connection of the frame server *)

\* server.current_data_to_send = None
None == <<>>

\* images the producer puts in the frames queue, by frame number
ImageOf(n) ==
    IF n % 2 = 0 THEN Filled(<<1, 2, 3>>, DT_U8, "ramp")
    ELSE Filled(<<2, 1>>, DT_U8, "fours")

\* what a client may write on the connection as one framed request: the four
\* control packets with an empty payload, and three damaged OK packets
ControlPacket(t) == serialize(Packet(0, t, EmptyU8)).bytes
BadVersion == [ControlPacket(PT_OK) EXCEPT ![4] = 3 * 64 + (@ % 64)]
BadCrc == [ControlPacket(PT_OK) EXCEPT ![17] = 1]
BadLength == [ControlPacket(PT_OK) EXCEPT ![13] = 1]
Requests ==
    {ControlPacket(t) : t \in PacketTypes} \cup {BadVersion, BadCrc, BadLength}

CodecIdle ==
    /\ pkt = placeholder
    /\ buf = <<>>
    /\ mut = "none"
    /\ res = NotDecoded
    /\ cstage = "off"

\* FrameTCPServer.__init__, then a connection is accepted and handle() starts
Init ==
    /\ CodecIdle
    /\ FramerIdle
    /\ ReaderIdle
    /\ ConsumerIdle
    /\ RaspiIdle
    /\ hpc = "read"
    /\ frames_queue = <<>>
    /\ current_data_to_send = None
    /\ halt_server_event = FALSE
    /\ socket_closed = FALSE
    /\ peer_closed = FALSE
    /\ inbound = <<>>
    /\ sent = <<>>
    /\ taken = <<>>
    /\ hist = <<>>
    /\ produced = <<>>

\* the connection is being served: handle() has neither returned nor raised
Serving == hpc \in {"read", "update"}

\* frame ids a producer may give its next frame: the previous id plus one, or
\* 0 when a reader run starts (VideoReader._run: frame_id = 0, frame_id += 1)
NextFrameIds ==
    IF produced = <<>> THEN {0}
    ELSE {0, produced[Len(produced)][1] + 1}

\* the frame producer, while the connection is served:
\* frames_queue.put((frame_id, frame))
ProducerPut ==
    /\ Serving
    /\ Len(produced) < MaxFrames
    /\ \E n \in NextFrameIds :
        /\ frames_queue' = Append(frames_queue, <<n, ImageOf(n)>>)
        /\ produced' = Append(produced, <<n, ImageOf(n)>>)
    /\ UNCHANGED <<hpc, current_data_to_send, halt_server_event, socket_closed,
                   inbound, sent, taken, hist, peer_closed>>
    /\ UNCHANGED notServerVars

\* halt_event.set() by the application
SetHalt ==
    /\ Serving
    /\ ~halt_server_event
    /\ halt_server_event' = TRUE
    /\ UNCHANGED <<hpc, frames_queue, current_data_to_send, socket_closed,
                   inbound, sent, taken, hist, produced, peer_closed>>
    /\ UNCHANGED notServerVars

\* (variant of QueueGet: the newest item is returned)
QueueGetNewest(q) == [item |-> q[Len(q)], rest |-> SubSeq(q, 1, Len(q) - 1)]
\* frames_queue.get on a non-empty queue.Queue
QueueGet(q) == [item |-> Head(q), rest |-> Tail(q)]

\* (variant of DispatchPc: the HALT branch does not leave the loop)
DispatchPcNoBreak(t) == IF t = PT_OK THEN "update" ELSE "read"
\* where handle() goes for a decoded packet type, lines 43-59
DispatchPc(t) ==
    IF t = PT_OK THEN "update"
    ELSE IF t = PT_HALT THEN "done"
    ELSE "read"

\* _send_current_data: what is passed to request.sendall
SendCurrentData(cur) == serialize(Packet(cur[1], PT_FRAME, cur[2]))

\* the record kept of a handled request
HistEntry(t) ==
    [ type   |-> t,
      qlen   |-> Len(frames_queue),
      qhead  |-> IF frames_queue = <<>> THEN None ELSE Head(frames_queue),
      halt   |-> halt_server_event,
      cur    |-> current_data_to_send,
      nsent  |-> Len(sent),
      ntaken |-> Len(taken),
      out    |-> "pending",
      cur_after |-> current_data_to_send,
      ntaken_after |-> Len(taken) ]

Finish(h, how, cur, n) ==
    [h EXCEPT ![Len(h)].out = how, ![Len(h)].cur_after = cur, ![Len(h)].ntaken_after = n]

\* handle(), lines 23-42: a request is framed and deserialized; None or an
\* exception from deserialize ends handle() at line 42 or 41
HandleUndecodable ==
    /\ hpc = "read"
    /\ ~peer_closed
    /\ Len(hist) < MaxRequests
    /\ \E raw \in Requests :
        /\ deserialize(raw).kind # "packet"
        /\ inbound' = raw
        /\ hist' = Finish(Append(hist, HistEntry(-1)), "crashed",
                          current_data_to_send, Len(taken))
    /\ hpc' = "crashed"
    /\ UNCHANGED <<frames_queue, current_data_to_send, halt_server_event,
                   socket_closed, sent, taken, produced, peer_closed>>
    /\ UNCHANGED notServerVars

\* handle(), lines 43-48: OK; _update_new_data_to_send starts, line 73
HandleOk ==
    /\ hpc = "read"
    /\ ~peer_closed
    /\ Len(hist) < MaxRequests
    /\ \E raw \in Requests :
        /\ deserialize(raw).kind = "packet"
        /\ deserialize(raw).pkt.packet_type = PT_OK
        /\ inbound' = raw
        /\ hist' = Append(hist, HistEntry(PT_OK))
    /\ current_data_to_send' = None
    /\ hpc' = DispatchPc(PT_OK)
    /\ UNCHANGED <<frames_queue, halt_server_event, socket_closed, sent, taken,
                   produced, peer_closed>>
    /\ UNCHANGED notServerVars

\* _update_new_data_to_send, line 76, get returns an item; then lines 47-48
\* (get blocks while the queue is empty: the step waits for an item or for
\* the Empty branch below)
UpdateGet ==
    /\ hpc = "update"
    /\ frames_queue # <<>>
    /\ LET g == QueueGet(frames_queue)
           s == SendCurrentData(g.item)
       IN  /\ frames_queue' = g.rest
           /\ current_data_to_send' = g.item
           /\ taken' = Append(taken, g.item)
           /\ IF s.kind = "bytes"
              THEN /\ sent' = Append(sent, s.bytes)
                   /\ hpc' = "read"
                   /\ hist' = Finish(hist, "sent", g.item, Len(taken) + 1)
              ELSE /\ sent' = sent
                   /\ hpc' = "crashed"
                   /\ hist' = Finish(hist, "crashed", g.item, Len(taken) + 1)
    /\ UNCHANGED <<halt_server_event, socket_closed, inbound, produced, peer_closed>>
    /\ UNCHANGED notServerVars

\* _update_new_data_to_send, lines 77-80: queue.Empty with halt set; the loop
\* is left, False is returned and handle() goes on with its while loop
UpdateEmptyHalt ==
    /\ hpc = "update"
    /\ frames_queue = <<>>
    /\ halt_server_event
    /\ hpc' = "read"
    /\ hist' = Finish(hist, "nodata", current_data_to_send, Len(taken))
    /\ UNCHANGED <<frames_queue, current_data_to_send, halt_server_event,
                   socket_closed, inbound, sent, taken, produced, peer_closed>>
    /\ UNCHANGED notServerVars

\* handle(), lines 50-53: REQUEST; _send_current_data unpacks
\* current_data_to_send, which raises TypeError when it is None
HandleRequest ==
    /\ hpc = "read"
    /\ ~peer_closed
    /\ Len(hist) < MaxRequests
    /\ \E raw \in Requests :
        /\ deserialize(raw).kind = "packet"
        /\ deserialize(raw).pkt.packet_type = PT_REQUEST
        /\ inbound' = raw
    /\ IF current_data_to_send = None
       THEN /\ hpc' = "crashed"
            /\ sent' = sent
            /\ hist' = Finish(Append(hist, HistEntry(PT_REQUEST)), "crashed",
                              current_data_to_send, Len(taken))
       ELSE LET s == SendCurrentData(current_data_to_send)
            IN  IF s.kind = "bytes"
                THEN /\ hpc' = DispatchPc(PT_REQUEST)
                     /\ sent' = Append(sent, s.bytes)
                     /\ hist' = Finish(Append(hist, HistEntry(PT_REQUEST)), "sent",
                                       current_data_to_send, Len(taken))
                ELSE /\ hpc' = "crashed"
                     /\ sent' = sent
                     /\ hist' = Finish(Append(hist, HistEntry(PT_REQUEST)), "crashed",
                                       current_data_to_send, Len(taken))
    /\ UNCHANGED <<frames_queue, current_data_to_send, halt_server_event,
                   socket_closed, taken, produced, peer_closed>>
    /\ UNCHANGED notServerVars

\* handle(), lines 55-59: HALT; server.socket.close() and break
HandleHalt ==
    /\ hpc = "read"
    /\ ~peer_closed
    /\ Len(hist) < MaxRequests
    /\ \E raw \in Requests :
        /\ deserialize(raw).kind = "packet"
        /\ deserialize(raw).pkt.packet_type = PT_HALT
        /\ inbound' = raw
    /\ socket_closed' = TRUE
    /\ hpc' = DispatchPc(PT_HALT)
    /\ hist' = Finish(Append(hist, HistEntry(PT_HALT)), "closed",
                      current_data_to_send, Len(taken))
    /\ UNCHANGED <<frames_queue, current_data_to_send, halt_server_event, sent,
                   taken, produced, peer_closed>>
    /\ UNCHANGED notServerVars

\* handle(): a FRAME packet matches no branch; the loop reads again
HandleFrame ==
    /\ hpc = "read"
    /\ ~peer_closed
    /\ Len(hist) < MaxRequests
    /\ \E raw \in Requests :
        /\ deserialize(raw).kind = "packet"
        /\ deserialize(raw).pkt.packet_type = PT_FRAME
        /\ inbound' = raw
    /\ hpc' = DispatchPc(PT_FRAME)
    /\ hist' = Finish(Append(hist, HistEntry(PT_FRAME)), "ignored",
                      current_data_to_send, Len(taken))
    /\ UNCHANGED <<frames_queue, current_data_to_send, halt_server_event,
                   socket_closed, sent, taken, produced, peer_closed>>
    /\ UNCHANGED notServerVars

\* the client closes its end of the connection while the handler waits for a
\* request: from then on the stream is at end-of-file
ClientClose ==
    /\ hpc = "read"
    /\ ~peer_closed
    /\ peer_closed' = TRUE
    /\ UNCHANGED <<hpc, frames_queue, current_data_to_send, halt_server_event,
                   socket_closed, inbound, sent, taken, hist, produced>>
    /\ UNCHANGED notServerVars

\* handle() lines 26-29 and 32-36: the framer returns None (deadline reached
\* with nothing framed, or the stream closed) and the loop reads again with
\* `continue`; no state changes
ReadNothing ==
    /\ hpc = "read"
    /\ UNCHANGED serverVars
    /\ UNCHANGED notServerVars

\* _update_new_data_to_send lines 77-85: queue.Empty without halt; the
\* handler sleeps a second and calls get again; no state changes
UpdateWait ==
    /\ hpc = "update"
    /\ frames_queue = <<>>
    /\ ~halt_server_event
    /\ UNCHANGED serverVars
    /\ UNCHANGED notServerVars

Next ==
    \/ ProducerPut
    \/ SetHalt
    \/ ClientClose
    \/ ReadNothing
    \/ UpdateWait
    \/ HandleUndecodable
    \/ HandleOk
    \/ UpdateGet
    \/ UpdateEmptyHalt
    \/ HandleRequest
    \/ HandleHalt
    \/ HandleFrame

Spec == Init /\ [][Next]_vars

\* the handler's thread keeps running: a step of handle() that can be taken
\* without the client or the producer is eventually taken (ReadNothing and
\* UpdateWait change nothing, so running them forever is staying in place)
HandlerStep == UpdateGet \/ UpdateEmptyHalt
SpecFair == Spec /\ WF_vars(HandlerStep)

---------------------------------------------------------------------------
(* The stream framer as handle() uses it, lines 25-41: PacketHandler's        *)
(* read_start_word and read_until_end_word, one byte of the connection at a   *)
(* time, then data + rest_data                                                *)

\* the last n elements of s
LastN(s, n) == SubSeq(s, Len(s) - Min(n, Len(s)) + 1, Len(s))

\* s ends with the word w
EndsWith(s, w) == Len(s) >= Len(w) /\ LastN(s, Len(w)) = w

\* sequences over S of length at most n
SeqsUpTo(S, n) == UNION {[1..k -> S] : k \in 0..n}

\* garbage a peer may write before the packet: the letters of the start word
\* and a byte of neither magic word
GarbageBytes == {73, 78, 85, 255}
\* garbage after the packet
PostGarbage == {<<>>, <<255>>, END_MAGIC_WORD}

\* payloads of the framed packets: empty, a ramp, "NEKO", and "INU" then 4
FramedPayloads ==
    {EmptyU8, Filled(<<2, 1>>, DT_U8, "ramp"),
     NdArray(<<2, 2>>, DT_U8, END_MAGIC_WORD),
     NdArray(<<2, 2>>, DT_U8, START_MAGIC_WORD \o <<4>>)}

FramedPackets == {serialize(Packet(1, PT_FRAME, a)).bytes : a \in FramedPayloads}

\* the bytes that arrive before the connection closes or the deadline passes:
\* all of them, or the stream cut inside the start word or before the last byte
Cuts(pre, packet, post) ==
    {Len(pre) + Len(packet) + Len(post), Len(pre) + 2, Len(pre) + Len(packet) - 1}

FramerInputs ==
    UNION {{[pre |-> g, packet |-> p, post |-> t, avail |-> n] : n \in Cuts(g, p, t)} :
             g \in SeqsUpTo(GarbageBytes, MaxGarbage), p \in FramedPackets,
             t \in PostGarbage}

\* everything the peer wrote on the connection
Stream == origin.pre \o origin.packet \o origin.post

InitFramer ==
    /\ CodecIdle
    /\ ServerIdle
    /\ ReaderIdle
    /\ ConsumerIdle
    /\ RaspiIdle
    /\ origin \in FramerInputs
    /\ spos = 0
    /\ fpc = "start"
    /\ sdata = <<>>
    /\ rest_data = <<>>
    /\ fout = <<>>

\* read_start_word, one byte: the byte joins the window of the last three
\* bytes read; the start word in the window ends the scan
ReadStartByte ==
    /\ fpc = "start"
    /\ spos < origin.avail
    /\ spos' = spos + 1
    /\ sdata' = LastN(Append(sdata, Stream[spos + 1]), LEN_START_MAGIC_WORD)
    /\ fpc' = IF sdata' = START_MAGIC_WORD THEN "rest" ELSE "start"
    /\ UNCHANGED <<origin, rest_data, fout>>
    /\ UNCHANGED notFramerVars

\* read_start_word returns None (connection closed or deadline reached);
\* handle() lines 27-29 read again, with the same result
StartClosed ==
    /\ fpc = "start"
    /\ spos = origin.avail
    /\ sdata' = None
    /\ fpc' = "closed"
    /\ UNCHANGED <<origin, spos, rest_data, fout>>
    /\ UNCHANGED notFramerVars

\* read_until_end_word, one byte: the byte is appended to the buffer; the
\* buffer ending in the end word ends the read
ReadRestByte ==
    /\ fpc = "rest"
    /\ spos < origin.avail
    /\ spos' = spos + 1
    /\ rest_data' = Append(rest_data, Stream[spos + 1])
    /\ fpc' = IF EndsWith(rest_data', END_MAGIC_WORD) THEN "framed" ELSE "rest"
    /\ UNCHANGED <<origin, sdata, fout>>
    /\ UNCHANGED notFramerVars

\* read_until_end_word returns None; handle() lines 34-36
RestClosed ==
    /\ fpc = "rest"
    /\ spos = origin.avail
    /\ rest_data' = None
    /\ fpc' = "closed"
    /\ UNCHANGED <<origin, spos, sdata, fout>>
    /\ UNCHANGED notFramerVars

\* (variant of Framed: the start word is left out)
FramedRestOnly(start, rest) == rest
\* handle() line 41: data + rest_data
Framed(start, rest) == start \o rest

Concat ==
    /\ fpc = "framed"
    /\ fout' = Framed(sdata, rest_data)
    /\ fpc' = "done"
    /\ UNCHANGED <<origin, spos, sdata, rest_data>>
    /\ UNCHANGED notFramerVars

NextFramer ==
    \/ ReadStartByte
    \/ StartClosed
    \/ ReadRestByte
    \/ RestClosed
    \/ Concat

SpecFramer == InitFramer /\ [][NextFramer]_vars

---------------------------------------------------------------------------
(* Frame providers: VideoReader (pattern_tracking/proper/logic/video),        *)
(* utils.video_reader and FramesFromDistantServer, each filling the queue a   *)
(* consumer reads                                                             *)

\* max_frames_in_queue: int = 30
DEFAULT_MAX_FRAMES_IN_QUEUE == 30

\* feeds a provider may be given: two video files, a camera, and a file that
\* cv.VideoCapture cannot open
Feeds == {"A", "B", "camera", "missing"}
IsVideoFile(feed) == feed # "camera"
\* _initialize_reader: self._video_feed.isOpened()
Opens(feed) == feed # "missing"
\* number of frames a feed delivers before read() fails
FeedLen(feed) == MaxVideoLen

Providers == {"VideoReader", "video_reader", "FramesFromDistantServer"}

\* maxsize of the queue the consumer reads. VideoReader: the queue made by
\* AbstractFrameProvider.__init__(halt_work, max_frames_in_queue);
\* FramesFromDistantServer line 13: the client's received_frames_queue, made
\* by FrameTCPClient(ip_address, port, halt_event, conn_ended)
QueueMaxsize ==
    IF vr.kind = "FramesFromDistantServer" THEN DEFAULT_MAX_FRAMES_IN_QUEUE
    ELSE vr.max_frames_in_queue

\* queue.Queue.put(item) with block=True waits while the queue is full
QueueFull(q) == Len(q) >= QueueMaxsize

NoCall == [pc |-> "idle", feed_origin |-> "", is_video |-> FALSE,
           loop_video |-> FALSE, calls |-> 0, exc |-> ""]
NoRun == [pc |-> "idle", frame_id |-> 0, frame |-> None, no |-> 0, rewound |-> FALSE]

\* VideoReader.__init__ (the first frame is read for _frames_shape),
\* FramesFromDistantServer.__init__, or the caller of utils.video_reader
\* opening the capture
Constructed(kind, feed, loop_video, n) ==
    [ kind        |-> kind,
      feed_origin |-> feed,
      is_video    |-> IsVideoFile(feed),
      has_is_video |-> kind # "VideoReader",
      loop        |-> kind = "VideoReader" /\ loop_video /\ IsVideoFile(feed),
      opened      |-> kind # "FramesFromDistantServer",
      pos         |-> IF kind = "VideoReader" THEN 1 ELSE 0,
      gen         |-> 0,
      reset_event |-> FALSE,
      thread      |-> "none",
      max_frames_in_queue |-> n ]

InitReader ==
    /\ CodecIdle
    /\ ServerIdle
    /\ FramerIdle
    /\ ConsumerIdle
    /\ RaspiIdle
    /\ vr \in {Constructed(k, f, l, n) :
                 k \in Providers, f \in {g \in Feeds : Opens(g)},
                 l \in BOOLEAN, n \in 1..MaxCapacity}
    /\ run = NoRun
    /\ cf = NoCall
    /\ halt_event = FALSE
    /\ provider_queue = <<>>
    /\ puts = <<>>

\* start(): Thread(target=self._run).start(); _run line 54-56
Start ==
    /\ vr.thread = "none"
    /\ vr' = [vr EXCEPT !.thread = "running"]
    /\ run' = [pc |-> IF vr.kind = "FramesFromDistantServer" THEN "recv" ELSE "cond",
               frame_id |-> 0, frame |-> None, no |-> 1, rewound |-> FALSE]
    /\ UNCHANGED <<cf, halt_event, provider_queue, puts>>
    /\ UNCHANGED notReaderVars

\* _run lines 57-58 (utils.video_reader line 159): the inner loop's condition
RunCond ==
    /\ vr.thread = "running"
    /\ run.pc = "cond"
    /\ vr.kind # "FramesFromDistantServer"
    /\ run' = [run EXCEPT !.pc =
                 IF vr.opened /\ ~halt_event /\ ~vr.reset_event THEN "read"
                 ELSE "after"]
    /\ UNCHANGED <<vr, cf, halt_event, provider_queue, puts>>
    /\ UNCHANGED notReaderVars

\* _run lines 59-61: ret, frame = self._video_feed.read()
RunRead ==
    /\ vr.thread = "running"
    /\ run.pc = "read"
    /\ IF vr.pos < FeedLen(vr.feed_origin)
       THEN /\ run' = [run EXCEPT !.pc = "put",
                                  !.frame = [gen |-> vr.gen, idx |-> vr.pos]]
            /\ vr' = [vr EXCEPT !.pos = @ + 1]
       ELSE /\ run' = [run EXCEPT !.pc = "after"]
            /\ vr' = vr
    /\ UNCHANGED <<cf, halt_event, provider_queue, puts>>
    /\ UNCHANGED notReaderVars

\* the record kept of an enqueued item
PutEntry == [no |-> run.no, id |-> run.frame_id, gen |-> run.frame.gen,
             rewound |-> run.rewound]

\* (variant of NextFrameId: the frame number is not advanced)
SameFrameId(id) == id
\* _run line 64: frame_id += 1
NextFrameId(id) == id + 1

\* _run lines 63-66: self._frames_queue.put((frame_id, frame)); frame_id += 1
\* (the sleep of line 66 changes no state). Line 65 reads self._is_video,
\* which VideoReader.__init__ does not assign and change_feed line 95 does:
\* until then the read succeeds if AbstractFrameProvider has the attribute
\* and raises AttributeError, ending the thread, if it has not
RunPut ==
    /\ vr.thread = "running"
    /\ run.pc = "put"
    /\ ~QueueFull(provider_queue)
    /\ provider_queue' = Append(provider_queue, <<run.frame_id, run.frame>>)
    /\ puts' = <<PutEntry>> \o SubSeq(puts, 1, Min(1, Len(puts)))
    /\ \E raised \in (IF vr.has_is_video THEN {FALSE} ELSE BOOLEAN) :
        /\ run' = [run EXCEPT !.pc = IF raised THEN "raised" ELSE "cond",
                              !.frame_id = NextFrameId(@),
                              !.frame = None, !.rewound = FALSE]
        /\ vr' = [vr EXCEPT !.thread = IF raised THEN "dead" ELSE @]
    /\ UNCHANGED <<cf, halt_event>>
    /\ UNCHANGED notReaderVars

\* _run line 69: the condition under which the feed is rewound
Looping == vr.loop /\ ~halt_event /\ ~vr.reset_event

\* _run lines 69-75: the video is rewound and counted from 0 again (line 56),
\* or the thread releases the feed and ends; utils.video_reader line 169 sets
\* the halt event instead
RunAfter ==
    /\ vr.thread = "running"
    /\ run.pc = "after"
    /\ IF vr.kind = "VideoReader" /\ Looping
       THEN /\ vr' = [vr EXCEPT !.pos = IF IsVideoFile(vr.feed_origin) THEN 0 ELSE @]
            /\ run' = [run EXCEPT !.pc = "cond", !.frame_id = 0, !.rewound = TRUE]
            /\ halt_event' = halt_event
       ELSE /\ vr' = [vr EXCEPT !.thread = "dead",
                                !.opened = IF vr.kind = "VideoReader" THEN FALSE ELSE @]
            /\ run' = [run EXCEPT !.pc = "end"]
            /\ halt_event' = (halt_event \/ vr.kind = "video_reader")
    /\ UNCHANGED <<cf, provider_queue, puts>>
    /\ UNCHANGED notReaderVars

\* FrameTCPClient.run_forever: a received frame is enqueued in
\* received_frames_queue with the frame number the server gave it
ClientEnqueue ==
    /\ vr.thread = "running"
    /\ run.pc = "recv"
    /\ ~halt_event
    /\ run.frame_id < MaxReceived
    /\ ~QueueFull(provider_queue)
    /\ provider_queue' = Append(provider_queue,
                                <<run.frame_id, [gen |-> 0, idx |-> run.frame_id]>>)
    /\ puts' = <<[no |-> run.no, id |-> run.frame_id, gen |-> 0, rewound |-> FALSE]>>
                 \o SubSeq(puts, 1, Min(1, Len(puts)))
    /\ run' = [run EXCEPT !.frame_id = @ + 1]
    /\ UNCHANGED <<vr, cf, halt_event>>
    /\ UNCHANGED notReaderVars

\* FrameTCPClient.run_forever ends on halt
ClientStop ==
    /\ vr.thread = "running"
    /\ run.pc = "recv"
    /\ halt_event
    /\ vr' = [vr EXCEPT !.thread = "dead"]
    /\ run' = [run EXCEPT !.pc = "end"]
    /\ UNCHANGED <<cf, halt_event, provider_queue, puts>>
    /\ UNCHANGED notReaderVars

\* the consumer: get_frame() takes the oldest item of the queue
ConsumerGet ==
    /\ provider_queue # <<>>
    /\ provider_queue' = Tail(provider_queue)
    /\ UNCHANGED <<vr, run, cf, halt_event, puts>>
    /\ UNCHANGED notReaderVars

\* the application sets the halt event
HaltWork ==
    /\ ~halt_event
    /\ halt_event' = TRUE
    /\ UNCHANGED <<vr, run, cf, provider_queue, puts>>
    /\ UNCHANGED notReaderVars

\* change_feed lines 89-90: self._reset_event.set(); self._thread.join() is
\* reached, and raises AttributeError when start() was never called
ChangeFeedCall ==
    /\ vr.kind = "VideoReader"
    /\ cf.pc \in {"idle", "raised"}
    /\ cf.calls < MaxFeedChanges
    /\ \E feed \in Feeds, loop_video \in BOOLEAN :
        cf' = [pc |-> IF vr.thread = "none" THEN "raised" ELSE "join",
               feed_origin |-> feed, is_video |-> IsVideoFile(feed),
               loop_video |-> loop_video, calls |-> cf.calls + 1,
               exc |-> IF vr.thread = "none" THEN "AttributeError" ELSE ""]
    /\ vr' = [vr EXCEPT !.reset_event = TRUE]
    /\ UNCHANGED <<run, halt_event, provider_queue, puts>>
    /\ UNCHANGED notReaderVars

\* (variant of ThreadJoined: change_feed does not wait for the thread)
ThreadNotAwaited(t) == TRUE
\* change_feed line 90: self._thread.join() returns
ThreadJoined(t) == t = "dead"

\* change_feed lines 93-103, after the join: the feed is replaced and a new
\* thread is started, or _initialize_reader raises IOError at line 94
ChangeFeedJoin ==
    /\ cf.pc = "join"
    /\ ThreadJoined(vr.thread)
    /\ IF Opens(cf.feed_origin)
       THEN /\ vr' = [vr EXCEPT !.feed_origin = cf.feed_origin,
                                !.opened = TRUE,
                                !.pos = 0,
                                !.gen = @ + 1,
                                !.is_video = cf.is_video,
                                !.has_is_video = TRUE,
                                !.loop = cf.loop_video,
                                !.reset_event = FALSE,
                                !.thread = "running"]
            /\ run' = [pc |-> "cond", frame_id |-> 0, frame |-> None,
                       no |-> run.no + 1, rewound |-> FALSE]
            /\ cf' = [cf EXCEPT !.pc = "idle"]
       ELSE /\ vr' = [vr EXCEPT !.feed_origin = cf.feed_origin, !.opened = FALSE]
            /\ run' = run
            /\ cf' = [cf EXCEPT !.pc = "raised", !.exc = "IOError"]
    /\ UNCHANGED <<halt_event, provider_queue, puts>>
    /\ UNCHANGED notReaderVars

\* the steps of the provider's thread
ReaderThread ==
    \/ RunCond
    \/ RunRead
    \/ RunPut
    \/ RunAfter
    \/ ClientEnqueue
    \/ ClientStop

NextReader ==
    \/ Start
    \/ RunCond
    \/ RunRead
    \/ RunPut
    \/ RunAfter
    \/ ClientEnqueue
    \/ ClientStop
    \/ ConsumerGet
    \/ HaltWork
    \/ ChangeFeedCall
    \/ ChangeFeedJoin

SpecReader == InitReader /\ [][NextReader]_vars

\* the scheduler runs the provider's thread whenever it can take a step; the
\* consumer and the application may stop at any time
SpecReaderFair == SpecReader /\ WF_vars(ReaderThread)

---------------------------------------------------------------------------
(* BackgroundComputation (src/pattern_tracking/logic): the consumer thread    *)
(* that grabs frames from the live feed and hands them to the trackers, the  *)
(* plots and the display                                                     *)

\* _run before its first pass: frame_number and live_frame are not bound yet
NotStarted ==
    [pc |-> "test", bound |-> FALSE, frame_number |-> 0, live_frame |-> None,
     fresh |-> FALSE]

\* BackgroundComputation.start(): the thread enters _run
InitConsumer ==
    /\ CodecIdle
    /\ ServerIdle
    /\ FramerIdle
    /\ ReaderIdle
    /\ RaspiIdle
    /\ bc = NotStarted
    /\ feed_queue = <<>>
    /\ feed_resetting \in BOOLEAN
    /\ global_halt = FALSE
    /\ fed = 0
    /\ shown = <<>>

\* the live feed's provider enqueues its next frame
FeedPut ==
    /\ fed < MaxFed
    /\ feed_queue' = Append(feed_queue, <<fed, [idx |-> fed]>>)
    /\ fed' = fed + 1
    /\ UNCHANGED <<bc, feed_resetting, global_halt, shown>>
    /\ UNCHANGED notConsumerVars

\* a feed change starts (the reset event is set) or ends (it is cleared)
FeedReset ==
    /\ feed_resetting' = ~feed_resetting
    /\ UNCHANGED <<bc, feed_queue, global_halt, fed, shown>>
    /\ UNCHANGED notConsumerVars

\* the application sets the global halt event
GlobalHalt ==
    /\ ~global_halt
    /\ global_halt' = TRUE
    /\ UNCHANGED <<bc, feed_queue, feed_resetting, fed, shown>>
    /\ UNCHANGED notConsumerVars

\* _run line 31: while not self._global_halt.is_set()
BcTest ==
    /\ bc.pc = "test"
    /\ Len(shown) < MaxPasses
    /\ bc' = [bc EXCEPT !.pc = IF global_halt THEN "ended" ELSE "grab",
                        !.fresh = FALSE]
    /\ UNCHANGED <<feed_queue, feed_resetting, global_halt, fed, shown>>
    /\ UNCHANGED notConsumerVars

\* _run line 33: grab_frame(block=True, timeout=0.5) returns the oldest item
\* and the pair is bound to frame_number, live_frame
BcGrab ==
    /\ bc.pc = "grab"
    /\ feed_queue # <<>>
    /\ bc' = [bc EXCEPT !.pc = "process", !.bound = TRUE,
                        !.frame_number = Head(feed_queue)[1],
                        !.live_frame = Head(feed_queue)[2],
                        !.fresh = TRUE]
    /\ feed_queue' = Tail(feed_queue)
    /\ UNCHANGED <<feed_resetting, global_halt, fed, shown>>
    /\ UNCHANGED notConsumerVars

\* _run lines 33-34: the queue stayed empty for the timeout and grab_frame
\* raised queue.Empty; nothing is assigned
BcGrabEmpty ==
    /\ bc.pc = "grab"
    /\ feed_queue = <<>>
    /\ bc' = [bc EXCEPT !.pc = "wait"]
    /\ UNCHANGED <<feed_queue, feed_resetting, global_halt, fed, shown>>
    /\ UNCHANGED notConsumerVars

\* _run lines 36-37: while self._LIVE_FEED.is_feed_resetting(): continue
BcSpin ==
    /\ bc.pc = "wait"
    /\ feed_resetting
    /\ UNCHANGED consumerVars
    /\ UNCHANGED notConsumerVars

\* _run lines 36-38: the feed is not resetting; the except clause is left and
\* the pass goes on with line 38
BcWaitDone ==
    /\ bc.pc = "wait"
    /\ ~feed_resetting
    /\ bc' = [bc EXCEPT !.pc = "process"]
    /\ UNCHANGED <<feed_queue, feed_resetting, global_halt, fed, shown>>
    /\ UNCHANGED notConsumerVars

\* the record kept of a pass that processed a frame
PassEntry ==
    [frame_number |-> bc.frame_number, live_frame |-> bc.live_frame,
     fresh |-> bc.fresh]

\* _run lines 38-41: cv.resize(live_frame, ...), update_trackers,
\* update_plots(frame_number), change_frame_to_display; line 38 raises
\* UnboundLocalError when live_frame was never assigned, which ends the thread
BcProcess ==
    /\ bc.pc = "process"
    /\ IF bc.bound
       THEN /\ shown' = Append(shown, PassEntry)
            /\ bc' = [bc EXCEPT !.pc = "test"]
       ELSE /\ shown' = shown
            /\ bc' = [bc EXCEPT !.pc = "raised"]
    /\ UNCHANGED <<feed_queue, feed_resetting, global_halt, fed>>
    /\ UNCHANGED notConsumerVars

NextConsumer ==
    \/ FeedPut
    \/ FeedReset
    \/ GlobalHalt
    \/ BcTest
    \/ BcGrab
    \/ BcGrabEmpty
    \/ BcSpin
    \/ BcWaitDone
    \/ BcProcess

SpecConsumer == InitConsumer /\ [][NextConsumer]_vars


---------------------------------------------------------------------------
(* raspberry_communication_protocol.Packet: the older codec.  PROTOCOL_VER, *)
(* the BIT_LEN_ and LEN_ sizes and PAYLOAD_LEN_IDX have the values of the   *)
(* newer codec (lines 28-67 of the older Packet.py).                        *)

\* b"inu" and b"neko"
RASPI_START_MAGIC_WORD == <<105, 110, 117>>
RASPI_END_MAGIC_WORD == <<110, 101, 107, 111>>

\* PacketType(value).name
PacketTypeName(t) ==
    CASE t = PT_OK -> "OK" [] t = PT_FRAME -> "FRAME"
      [] t = PT_REQUEST -> "REQUEST" [] OTHER -> "HALT"

\* struct "!I", "!H" and int.to_bytes(k, "big"): most significant byte first
PackNetwork(n, k) == [i \in 1..k |-> (n \div Pow2(8 * (k - i))) % 256]

\* Packet.bytes_to_int with BYTE_ORDER = "big"
RECURSIVE raspi_bytes_to_int(_)
raspi_bytes_to_int(data) ==
    IF data = <<>> THEN 0
    ELSE 256 * raspi_bytes_to_int(SubSeq(data, 1, Len(data) - 1)) + data[Len(data)]

\* crc.Calculator(crc.Crc16.CCITT.value): polynomial 0x1021, init 0, no
\* reflection, xorout 0.  One bit step: the register is shifted left and,
\* when a 1 left it, xor-ed with 0x1021 (bits 12 and 5 are inverted and bit 0,
\* which the shift cleared, is set)
CcittShift(c) ==
    LET x == (c * 2) % 65536
    IN  IF c \div 32768 = 1
        THEN x + 1 + (IF (x \div 4096) % 2 = 1 THEN -4096 ELSE 4096)
                   + (IF (x \div 32) % 2 = 1 THEN -32 ELSE 32)
        ELSE x
RECURSIVE CcittBits(_, _)
CcittBits(c, k) ==
    IF k = 0 THEN c
    ELSE CHOOSE r \in {CcittBits(c1, k - 1) : c1 \in {CcittShift(c)}} : TRUE
\* the CRC register after bytes 1..k of data: each byte is xor-ed into the
\* high byte of the register, followed by 8 bit steps
RECURSIVE CcittUpTo(_, _)
CcittUpTo(data, k) ==
    IF k = 0 THEN 0
    ELSE CHOOSE r \in {CcittBits(x, 8) :
                        x \in {Xor(c0, data[k] * 256) : c0 \in {CcittUpTo(data, k - 1)}}} : TRUE
\* Packet.CRC_COMPUTER.checksum
checksum(data) == CcittUpTo(data, Len(data))

\* Packet.__init__ (payload_crc is Packet.compute_crc, lines 139-142)
RaspiPacket(frame_number, packet_type, payload) ==
    [ frame_number        |-> frame_number,
      packet_type         |-> packet_type,
      frame_shape         |-> PySlice(payload.shape, 0, 2),
      frame_channel_count |-> IF Len(payload.shape) <= 2 THEN 1
                              ELSE payload.shape[3],
      payload             |-> payload,
      payload_crc         |-> checksum(tobytes(payload)) ]

\* Packet.placeholder: Packet(-1, PacketType.OK, np.array(()))
raspi_placeholder == RaspiPacket(-1, PT_OK, NdArray(<<0>>, "float64", <<>>))

\* the header byte computed in serialize, lines 117-119
RaspiHeaderByte(p) ==
    BitOr(BitOr(PROTOCOL_VER * 64, p.packet_type * 16), p.frame_channel_count * 4)

\* Packet.serialize (of a constructed packet: packet_type is an enum member);
\* the CRC is packed by payload_crc.to_bytes(LEN_PAYLOAD_CRC, byteorder="little")
raspi_serialize(p) ==
    IF RaspiHeaderByte(p) > 255 THEN RaiseSer("OverflowError")
    ELSE IF \/ Len(PySlice(p.frame_shape, 0, 2)) # 2
            \/ p.frame_number < 0
            \/ \E i \in 1..Len(PySlice(p.frame_shape, 0, 2)) :
                    p.frame_shape[i] \notin 0..65535
         THEN RaiseSer("struct.error")
    ELSE RetBytes(
            RASPI_START_MAGIC_WORD
            \o <<RaspiHeaderByte(p)>>
            \o PackNetwork(p.frame_number, LEN_FRAME_NUMBER)
            \o PackNetwork(PySlice(p.frame_shape, 0, 2)[1], 2)
            \o PackNetwork(PySlice(p.frame_shape, 0, 2)[2], 2)
            \o PackNetwork(payload_length(p), LEN_PAYLOAD_LENGTH)
            \o tobytes(p.payload)
            \o ToLE(p.payload_crc, LEN_PAYLOAD_CRC)
            \o RASPI_END_MAGIC_WORD)

\* Packet.deserialize, lines 200-217: reshape, CRC check, field assignment
RaspiDecodeBody(raw, n, packet_type, frame_channel_count, isz) ==
    LET frame_number  == raspi_bytes_to_int(PySlice(raw, 4, 8))
        frame_x_shape == raspi_bytes_to_int(PySlice(raw, 8, 10))
        frame_y_shape == raspi_bytes_to_int(PySlice(raw, 10, 12))
        payload_bin   == PySlice(raw, 16, 16 + n)
        payload_crc   == raspi_bytes_to_int(PySlice(raw, 16 + n, 18 + n))
        shape == <<frame_x_shape, frame_y_shape, frame_channel_count>>
    IN  IF Len(payload_bin) % isz # 0 THEN Raise("ValueError")
        ELSE IF Prod(shape) # Len(payload_bin) \div isz THEN Raise("ValueError")
        ELSE IF payload_crc = checksum(payload_bin) THEN RetNone("crc")
        ELSE RetPacket(
                [ raspi_placeholder EXCEPT
                    !.packet_type = packet_type,
                    !.frame_channel_count = frame_channel_count,
                    !.frame_number = frame_number,
                    !.frame_shape = shape,
                    !.payload = NdArray(shape, "int", payload_bin) ])

\* Packet.deserialize, where dtype=int has isz bytes per element; the header
\* byte is read through its bit string (lines 175-198)
raspi_deserialize(raw_packet, isz) ==
    LET n == raspi_bytes_to_int(PySlice(raw_packet, PAYLOAD_LEN_IDX,
                                        PAYLOAD_LEN_IDX + LEN_PAYLOAD_LENGTH))
        bits == Bin(raw_packet[4])
        proto_ver == PySlice(bits, 0, BIT_LEN_PROTOCOL_VER)
        packet_type_bin ==
            PySlice(bits, BIT_LEN_PROTOCOL_VER, BIT_LEN_PROTOCOL_VER + BIT_LEN_PACKET_TYPE)
        channel_bin ==
            PySlice(bits, BIT_LEN_PROTOCOL_VER + BIT_LEN_PACKET_TYPE,
                    BIT_LEN_PROTOCOL_VER + BIT_LEN_PACKET_TYPE + BIT_LEN_CHANNEL_COUNT)
    IN  IF Len(raw_packet) # StructSize(n) THEN Raise("struct.error")
        ELSE IF IntBase2(proto_ver) # PROTOCOL_VER THEN RetNone("protocol")
        ELSE IF packet_type_bin = <<>> THEN Raise("ValueError")
        ELSE IF channel_bin = <<>> THEN Raise("ValueError")
        ELSE RaspiDecodeBody(raw_packet, n, PacketTypeName(IntBase2(packet_type_bin)),
                             IntBase2(channel_bin), isz)

\* the k bytes of a non-negative element, least significant first (the native
\* order of the machines the tool runs on)
RECURSIVE ElementBytes(_, _)
ElementBytes(v, k) ==
    IF k = 0 THEN <<>> ELSE <<v % 256>> \o ElementBytes(v \div 256, k - 1)
\* an int array of isz bytes per element and its tobytes(); the elements are
\* all 0 (the case the TODO of __main__ names), all 4 (the array of __main__)
\* or a ramp
IntArray(shape, f, isz) ==
    LET v(i) == CASE f = "zeros" -> 0 [] f = "fours" -> 4 [] OTHER -> 300 * i + 11
    IN  NdArray(shape, "int",
                [j \in 1..(Prod(shape) * isz) |->
                    ElementBytes(v(((j - 1) \div isz) + 1), isz)[((j - 1) % isz) + 1]])

\* bytes per element of dtype=int: 8 where C long has 64 bits, 4 where it has 32
IntSizes == {4, 8}

RaspiArrays(isz) ==
    {IntArray(sh, f, isz) : sh \in {x \in Shapes : Prod(x) <= MaxElems},
                            f \in {"zeros", "fours", "ramp"}}

InitRaspi ==
    /\ int_size \in IntSizes
    /\ rpkt \in {raspi_placeholder} \cup
            {RaspiPacket(fn, t, a) :
                <<fn, t, a>> \in {0, 250} \X PacketTypes \X RaspiArrays(int_size)}
    /\ rbuf = <<>>
    /\ rmut = "none"
    /\ rres = NotDecoded
    /\ rstage = "built"
    /\ CodecIdle
    /\ ServerIdle
    /\ FramerIdle
    /\ ReaderIdle
    /\ ConsumerIdle

\* s = p.serialize()
RaspiSerialize ==
    /\ rstage = "built"
    /\ LET s == raspi_serialize(rpkt)
       IN  IF s.kind = "bytes"
           THEN rbuf' = s.bytes /\ rstage' = "wire"
           ELSE rbuf' = <<>> /\ rstage' = "serialize_raised"
    /\ UNCHANGED <<rpkt, rmut, rres, int_size>>
    /\ UNCHANGED notRaspiVars

RaspiDamage(newbuf, what) ==
    /\ rstage = "wire"
    /\ rmut = "none"
    /\ rbuf' = newbuf
    /\ rmut' = what
    /\ UNCHANGED <<rpkt, rres, rstage, int_size>>
    /\ UNCHANGED notRaspiVars

\* one bit of one payload byte is inverted in transit
RaspiFlipPayloadBit ==
    \E i \in 1..payload_length(rpkt), b \in 0..7 :
        RaspiDamage([rbuf EXCEPT ![16 + i] = Xor(@, Pow2(b))], "flip")

\* one bit of the stored CRC is inverted in transit
RaspiFlipCrcBit ==
    \E i \in 1..LEN_PAYLOAD_CRC, b \in 0..7 :
        RaspiDamage([rbuf EXCEPT ![16 + payload_length(rpkt) + i] = Xor(@, Pow2(b))],
                    "crc_field")

\* the two bytes of the stored CRC change places: the buffer of a sender that
\* stores the CRC most significant byte first
RaspiSwapCrcBytes ==
    /\ rstage = "wire"
    /\ RaspiDamage([rbuf EXCEPT ![17 + payload_length(rpkt)] = rbuf[18 + payload_length(rpkt)],
                                ![18 + payload_length(rpkt)] = rbuf[17 + payload_length(rpkt)]],
                   "crc_swapped")

\* bits 7..6 of the header byte are replaced by another version
RaspiSetVersionBits ==
    \E v \in {0, 1, 3} :
        RaspiDamage([rbuf EXCEPT ![4] = v * 64 + (@ % 64)], "version")

\* the payload_length field is rewritten, the payload bytes stay
RaspiSetLengthField ==
    \E n \in {payload_length(rpkt) + 1, payload_length(rpkt) - 1, 0} :
        /\ n >= 0
        /\ n # payload_length(rpkt)
        /\ RaspiDamage(SubSeq(rbuf, 1, PAYLOAD_LEN_IDX) \o PackNetwork(n, LEN_PAYLOAD_LENGTH)
                        \o SubSeq(rbuf, PAYLOAD_LEN_IDX + LEN_PAYLOAD_LENGTH + 1, Len(rbuf)),
                       "length_field")

\* pds = Packet.deserialize(s)
RaspiDeserialize ==
    /\ rstage = "wire"
    /\ rres' = raspi_deserialize(rbuf, int_size)
    /\ rstage' = "decoded"
    /\ UNCHANGED <<rpkt, rbuf, rmut, int_size>>
    /\ UNCHANGED notRaspiVars

NextRaspi ==
    \/ RaspiSerialize
    \/ RaspiFlipPayloadBit
    \/ RaspiFlipCrcBit
    \/ RaspiSwapCrcBytes
    \/ RaspiSetVersionBits
    \/ RaspiSetLengthField
    \/ RaspiDeserialize

SpecRaspi == InitRaspi /\ [][NextRaspi]_vars

---------------------------------------------------------------------------
(* Properties of the codec, checked under SpecCodec *)

\* the packets of the round-trip claim: rectangular non-empty payload,
\* channel count 1..3 (width, height < 2^16 and the four dtypes by construction)
WellFormed(p) ==
    /\ p.payload.shape \in Shapes
    /\ p.frame_channel_count \in 1..3

RoundTripped == cstage = "decoded" /\ mut = "none"

\* C1 as stated: every well-formed packet decodes, after serialize, to a packet
\* equal to it (frame_number, packet_type, payload_crc, payload shape and
\* payload elements), 2-D when its channel count is 1.
C1_RoundTripEveryShape ==
    (RoundTripped /\ WellFormed(pkt)) =>
        /\ res.kind = "packet"
        /\ PacketEq(res.pkt, pkt)
        /\ (pkt.frame_channel_count = 1 => Len(res.pkt.payload.shape) = 2)

\* C1 amended: the decoded packet has the frame_number, packet_type,
\* payload_crc, payload dtype and payload elements of the original, and its
\* payload shape too when the payload is 2-D or has 2 or 3 channels; a payload
\* of shape (h, w, 1) comes back as the 2-D payload (h, w); every packet with
\* channel count 1 comes back 2-D.
C1_RoundTrip ==
    (RoundTripped /\ WellFormed(pkt)) =>
        /\ res.kind = "packet"
        /\ res.pkt.frame_number = pkt.frame_number
        /\ res.pkt.packet_type = pkt.packet_type
        /\ res.pkt.payload_crc = pkt.payload_crc
        /\ res.pkt.payload.data = pkt.payload.data
        /\ res.pkt.payload.dtype = pkt.payload.dtype
        /\ IF Len(pkt.payload.shape) = 3 /\ pkt.payload.shape[3] = 1
           THEN res.pkt.payload.shape = PySlice(pkt.payload.shape, 0, 2)
           ELSE PacketEq(res.pkt, pkt)
        /\ (pkt.frame_channel_count = 1 => Len(res.pkt.payload.shape) = 2)

C1_Witness ==
    /\ RoundTripped
    /\ pkt.payload.shape = <<2, 1, 3>>
    /\ pkt.payload.dtype = 2
    /\ pkt.packet_type = PT_FRAME
    /\ res.kind = "packet"

\* C2 as stated: a valid encoded packet whose version bits are changed to
\* 0b00, 0b01 or 0b11 is rejected with the protocol-version error.
C2_VersionRejected ==
    (cstage = "decoded" /\ mut = "version") => res = RetNone("protocol")

\* C3: a single inverted bit in the payload bytes of an encoded packet makes
\* deserialize return the CRC-mismatch result.
C3_CrcDetectsBitFlip ==
    (cstage = "decoded" /\ mut = "flip") => res = RetNone("crc")

C3_Witness ==
    /\ cstage = "decoded"
    /\ mut = "flip"
    /\ pkt.payload = MainPayload
    /\ pkt.frame_number = 250
    /\ buf[28] = 132
    /\ res.kind = "none"

\* C9 as stated: a buffer whose start word is not "INU" or whose end word is
\* not "NEKO" never decodes to a Packet.
C9_MagicVerified ==
    (cstage = "decoded" /\ mut \in {"start_word", "end_word"}) => res.kind # "packet"

\* C10 as stated: a buffer whose payload_length field differs from the number
\* of payload bytes present is answered with an error result (a returned
\* value that is not a Packet).
C10_LengthMismatchResult ==
    (cstage = "decoded" /\ mut \in {"length_field", "payload_short", "payload_long"})
        => res.kind = "none"

\* C17: the placeholder packet Packet(0, OK, empty u8 array) serializes to
\* exactly 22 bytes with payload_length 0 and CRC 0x0000, and deserializing
\* those bytes returns a packet equal to the original.
C17_PlaceholderRoundTrip ==
    (pkt = placeholder /\ mut = "none") =>
        /\ cstage \in {"wire", "decoded"} =>
            /\ Len(buf) = 22
            /\ bytes_to_int(SubSeq(buf, 13, 16)) = 0
            /\ bytes_to_int(SubSeq(buf, 17, 18)) = 0
        /\ cstage = "decoded" =>
            /\ res.kind = "packet"
            /\ PacketEq(pkt, res.pkt)

\* the channel count of a payload: its third axis, 1 when it has none
ChannelsOf(a) == IF Len(a.shape) <= 2 THEN 1 ELSE a.shape[3]

\* byte i (from 1) of the k-byte little-endian form of n: n's i-th base-256 digit
Digit(n, i) == (n \div Pow2(8 * (i - 1))) % 256

\* C22 as stated: for every well-formed packet p, d = deserialize(serialize(p))
\* has the frame_shape of p (a pair), the frame_channel_count of p and the
\* payload_dtype of p, and serialize(d) gives the bytes of serialize(p).
C22_DecodedKeepsFields ==
    (RoundTripped /\ WellFormed(pkt)) =>
        /\ res.kind = "packet"
        /\ Len(res.pkt.frame_shape) = 2
        /\ res.pkt.frame_shape = pkt.frame_shape
        /\ res.pkt.frame_channel_count = pkt.frame_channel_count
        /\ res.pkt.payload_dtype = pkt.payload_dtype
        /\ serialize(res.pkt) = RetBytes(buf)

\* the fields of a buffer, read at their offsets
WidthField(raw) == bytes_to_int(PySlice(raw, 8, 10))
HeightField(raw) == bytes_to_int(PySlice(raw, 10, 12))
ChannelBits(raw) == (raw[4] \div 4) % 4
DtypeBits(raw) == raw[4] % 4
LengthField(raw) == bytes_to_int(PySlice(raw, 12, 16))
\* width * height * channel_count * sizeof(dtype)
DeclaredSize(raw) ==
    WidthField(raw) * HeightField(raw) * ChannelBits(raw) * ItemSize(DtypeBits(raw))

\* C24 as stated: a buffer with correct framing, version and CRC decodes to
\* a Packet whose payload has width * height * channel_count * sizeof(dtype)
\* bytes or to an error result; when the width, height and channel fields
\* disagree with payload_length, no Packet is returned and the outcome is an
\* error result.
C24_SizeInvariantEnforced ==
    (cstage = "decoded" /\ mut \in {"none", "shape"}) =>
        /\ res.kind \in {"packet", "none"}
        /\ res.kind = "packet" => Len(tobytes(res.pkt.payload)) = DeclaredSize(buf)
        /\ DeclaredSize(buf) # LengthField(buf) => res.kind = "none"

\* C25 as stated: a packet constructed from an empty payload has frame_shape
\* (0, 0), frame_channel_count 0 and payload_length 0, and the header byte
\* serialize writes for it has channel bits 00 (the packet is looked at once
\* serialize has been called on it).
C25_EmptyPayloadFields ==
    (pkt.payload = EmptyU8 /\ cstage # "built") =>
        /\ pkt.frame_shape = <<0, 0>>
        /\ pkt.frame_channel_count = 0
        /\ payload_length(pkt) = 0
        /\ (cstage = "wire" /\ mut = "none") => ChannelBits(buf) = 0

\* C26 as stated: every packet the constructor produces has
\* frame_channel_count in {0,1,2,3}, so that for every payload shape it
\* accepts, arrays with 4 or more channels included, serialize writes a header
\* byte whose bits 7..6 are 0b10 and whose bits 5..4 are the packet's type.
\* (the packet is looked at once serialize has been called on it)
C26_ChannelCountFits ==
    cstage # "built" =>
        /\ pkt.frame_channel_count \in 0..3
        /\ cstage # "serialize_raised"
        /\ (cstage = "wire" /\ mut = "none") =>
            /\ buf[4] \div 64 = PROTOCOL_VER
            /\ (buf[4] \div 16) % 4 = pkt.packet_type

\* C27 as stated: for a frame whose array shape is (h, w) or (h, w, c),
\* serialize writes w in the width field (offset 8) and h in the height field
\* (offset 10), and deserialize of those bytes rebuilds a payload of shape
\* (h, w) or (h, w, c).
C27_WidthHeightFollowAxes ==
    (cstage \in {"wire", "decoded"} /\ mut = "none" /\ WellFormed(pkt)) =>
        LET h == pkt.payload.shape[1]
            w == pkt.payload.shape[2]
        IN  /\ WidthField(buf) = w
            /\ HeightField(buf) = h
            /\ cstage = "decoded" =>
                /\ res.kind = "packet"
                /\ res.pkt.payload.shape = pkt.payload.shape

MainOnWire == pkt = MainPacket /\ cstage = "wire" /\ mut = "none"

\* C19 as stated: Packet(0xFA, FRAME, 2x2x3 u8 array of 4) serializes to
\* 49 4E 55 | A4 | FA 00 00 00 | 02 00 | 02 00 | 0C 00 00 00 | 04 x 12 |
\* A3 4F | 4E 45 4B 4F, the CRC-16/ARC of twelve 0x04 bytes being 0x4FA3.
C19_LiteralS1 ==
    MainOnWire =>
        /\ buf = <<73, 78, 85, 164, 250, 0, 0, 0, 2, 0, 2, 0, 12, 0, 0, 0,
                   4, 4, 4, 4, 4, 4, 4, 4, 4, 4, 4, 4, 163, 79, 78, 69, 75, 79>>
        /\ pkt.payload_crc = 20387

\* C19 amended: the same packet serializes to the 34 bytes
\* 49 4E 55 | 9C | FA 00 00 00 | 02 00 | 02 00 | 0C 00 00 00 | 04 x 12 |
\* 60 6F | 4E 45 4B 4F: the header byte is 0b10_01_11_00 = 0x9C and the
\* CRC-16/ARC of twelve 0x04 bytes is 0x6F60.
C19_S1Bytes ==
    MainOnWire =>
        /\ buf = <<73, 78, 85, 156, 250, 0, 0, 0, 2, 0, 2, 0, 12, 0, 0, 0,
                   4, 4, 4, 4, 4, 4, 4, 4, 4, 4, 4, 4, 96, 111, 78, 69, 75, 79>>
        /\ pkt.payload_crc = 28512

C19_Witness == MainOnWire /\ Len(buf) = 34 /\ pkt.frame_number = 250

---------------------------------------------------------------------------
(* Properties of the request handler, checked under Spec *)

\* the bytes are a FRAME packet with the item's frame_number and payload
Carries(bytes, item) ==
    LET d == deserialize(bytes)
    IN  /\ d.kind = "packet"
        /\ d.pkt.packet_type = PT_FRAME
        /\ d.pkt.frame_number = item[1]
        /\ d.pkt.payload.shape = item[2].shape
        /\ d.pkt.payload.data = item[2].data

NonDecreasing(items) ==
    \A i \in 1..Len(items), j \in 1..Len(items) : i <= j => items[i][1] <= items[j][1]

\* the requests that were OK packets answered with a frame, up to request k
OkAnswered(k) == {j \in 1..k : hist[j].type = PT_OK /\ hist[j].out = "sent"}

\* C4: an OK received while the queue is non-empty removes exactly the head
\* of the queue, stores it as current_data_to_send and sends exactly one FRAME
\* carrying it; the k-th FRAME sent for an OK carries the k-th item taken from
\* the queue, items are taken in the order they were queued, none skipped or
\* repeated, and the frame numbers sent for OKs are non-decreasing whenever
\* the queued ones are.
C4_OkAdvancesInQueueOrder ==
    /\ taken = SubSeq(produced, 1, Len(taken))
    /\ frames_queue = SubSeq(produced, Len(taken) + 1, Len(produced))
    /\ \A k \in 1..Len(hist) :
        (hist[k].type = PT_OK /\ hist[k].qlen > 0 /\ hist[k].out # "pending") =>
            /\ hist[k].out = "sent"
            /\ hist[k].ntaken_after = hist[k].ntaken + 1
            /\ taken[hist[k].ntaken_after] = hist[k].qhead
            /\ hist[k].cur_after = hist[k].qhead
            /\ Len(sent) > hist[k].nsent
            /\ Carries(sent[hist[k].nsent + 1], hist[k].qhead)
            /\ IF k < Len(hist) THEN hist[k + 1].nsent = hist[k].nsent + 1
               ELSE Len(sent) = hist[k].nsent + 1
    /\ \A k \in 1..Len(hist) :
        (hist[k].type = PT_OK /\ hist[k].out = "sent") =>
            /\ hist[k].ntaken_after = Cardinality(OkAnswered(k))
            /\ Carries(sent[hist[k].nsent + 1], taken[Cardinality(OkAnswered(k))])
    /\ NonDecreasing(produced) => NonDecreasing(taken)

C4_Witness ==
    /\ Len(hist) >= 2
    /\ hist[1].type = PT_OK /\ hist[1].qlen = 2 /\ hist[1].out = "sent"
    /\ hist[2].type = PT_OK /\ hist[2].qlen = 1 /\ hist[2].out = "sent"
    /\ taken = <<<<0, ImageOf(0)>>, <<1, ImageOf(1)>>>>
    /\ Len(sent) = 2

\* C5 as stated: a REQUEST received after a FRAME has been sent is answered
\* with the bytes of the last FRAME sent, and neither the queue nor
\* current_data_to_send changes.
C5_RequestReplays ==
    \A k \in 1..Len(hist) :
        (hist[k].type = PT_REQUEST /\ hist[k].nsent > 0) =>
            /\ hist[k].out = "sent"
            /\ Len(sent) > hist[k].nsent
            /\ sent[hist[k].nsent + 1] = sent[hist[k].nsent]
            /\ hist[k].cur_after = hist[k].cur
            /\ hist[k].ntaken_after = hist[k].ntaken

\* C6 as stated: a request that does not decode is skipped; nothing is sent
\* for it and the handler stays alive to read the next request.
C6_MalformedSkipped ==
    \A k \in 1..Len(hist) :
        hist[k].type = -1 => (hist[k].out = "ignored" /\ hpc # "crashed")

\* C7 as stated: an OK received while the queue is empty and halt is raised
\* closes the connection and ends the handler.
C7_EmptyHaltCloses ==
    \A k \in 1..Len(hist) :
        (hist[k].type = PT_OK /\ hist[k].qlen = 0 /\ hist[k].halt
            /\ hist[k].out # "pending") =>
                (hist[k].out = "closed" /\ hpc = "done" /\ socket_closed)

\* C8: a HALT packet closes the socket and ends the handler; it is the last
\* request handled and no FRAME is sent after it.
C8_HaltCloses ==
    \A k \in 1..Len(hist) :
        hist[k].type = PT_HALT =>
            /\ hist[k].out = "closed"
            /\ socket_closed
            /\ hpc = "done"
            /\ k = Len(hist)
            /\ Len(sent) = hist[k].nsent

C8_Witness ==
    /\ Len(hist) = 3
    /\ hist[1].type = PT_OK
    /\ hist[2].type = PT_REQUEST
    /\ hist[3].type = PT_HALT
    /\ Len(sent) = 2
    /\ hpc = "done"

\* C21 as stated: whenever the handler calls _send_current_data,
\* current_data_to_send holds a (frame_number, image) pair: for a REQUEST
\* (the call of line 53, made with the value the request found) and for an OK
\* whose update returned True (the call of line 48).
C21_SendHasFrame ==
    \A k \in 1..Len(hist) :
        /\ hist[k].type = PT_REQUEST => hist[k].cur # None
        /\ (hist[k].type = PT_OK /\ hist[k].out \in {"sent", "crashed"}) =>
               hist[k].cur_after # None

---------------------------------------------------------------------------
(* Properties of the stream framer, checked under SpecFramer *)

\* w occurs in s
Contains(s, w) ==
    \E i \in 1..(Len(s) - Len(w) + 1) : SubSeq(s, i, i + Len(w) - 1) = w

\* C11 as stated: whatever the garbage and the payload are, what handle()
\* hands to Packet.deserialize is exactly the bytes of the packet.
C11_ResyncAnyContent ==
    fpc = "done" => fout = origin.packet

\* C11 amended: when the garbage before the packet does not contain "INU" and
\* the packet's bytes between its start word and its end word do not contain
\* "NEKO", data + rest_data is exactly the bytes of the packet, whatever
\* follows the packet and whether or not the payload contains "INU".
C11_Resync ==
    (/\ fpc = "done"
     /\ ~Contains(origin.pre, START_MAGIC_WORD)
     /\ ~Contains(SubSeq(origin.packet, LEN_START_MAGIC_WORD + 1,
                         Len(origin.packet) - 1), END_MAGIC_WORD))
        => /\ fout = origin.packet
           /\ spos = Len(origin.pre) + Len(origin.packet)

\* a packet whose payload holds "INU" is framed out of garbage on both sides
C11_Witness ==
    /\ fpc = "done"
    /\ origin.pre = <<73, 78, 255>>
    /\ origin.post = END_MAGIC_WORD
    /\ Contains(SubSeq(origin.packet, 17, Len(origin.packet)), START_MAGIC_WORD)
    /\ fout = origin.packet

---------------------------------------------------------------------------
(* Properties of the frame providers, checked under SpecReader *)

\* C12: the queue a provider constructed with max_frames_in_queue = N fills
\* never holds more than N items, for the file/camera readers and for the
\* network producer alike.
C12_QueueBound ==
    vr.kind \in Providers => Len(provider_queue) <= vr.max_frames_in_queue

\* C13: once the halt event or the reader's reset event is set, the
\* VideoReader's thread is eventually not running any more, from every state
\* it can be in, the state where it waits in put on a full queue that nobody
\* reads included. Checked under SpecReaderFair.
C13_ReaderHonoursHaltAndReset ==
    [](((halt_event \/ vr.reset_event) /\ vr.kind = "VideoReader")
         => <>(vr.thread # "running"))

\* change_feed returns: the step from its join to its end
ChangeFeedReturns == cf.pc = "join" /\ cf'.pc = "idle"

\* the enqueued items are in the order of the feeds they were read from,
\* and the first item a thread enqueues has frame number 0
FeedOrderKept ==
    /\ Len(puts) >= 1 => (puts[1].id = 0 \/ Len(puts) = 2)
    /\ Len(puts) = 2 =>
        /\ puts[2].gen <= puts[1].gen
        /\ puts[1].no # puts[2].no => puts[1].id = 0

\* C15: when change_feed(B) returns on a started VideoReader, the old thread
\* has terminated, the feed is B, the reset event is clear, one new thread is
\* running and counts from 0; the first frame a thread enqueues is numbered 0
\* and no frame of an earlier feed is enqueued after a frame of a later one.
C15_ProducerSwap ==
    /\ [][ChangeFeedReturns =>
            /\ vr.thread = "dead"
            /\ run.pc \in {"end", "raised"}
            /\ vr'.feed_origin = cf.feed_origin
            /\ vr'.opened
            /\ vr'.pos = 0
            /\ ~vr'.reset_event
            /\ vr'.thread = "running"
            /\ run'.no = run.no + 1
            /\ run'.pc = "cond"
            /\ run'.frame_id = 0]_vars
    /\ []FeedOrderKept

\* after a change from feed A to feed B has returned, frame 0 of the new
\* thread is enqueued right after a frame of A
C15_Witness ==
    /\ vr.kind = "VideoReader"
    /\ cf.pc = "idle"
    /\ cf.calls = 1
    /\ vr.feed_origin = "B"
    /\ vr.thread = "running"
    /\ Len(puts) = 2
    /\ puts[1] = [no |-> 2, id |-> 0, gen |-> 1, rewound |-> FALSE]
    /\ puts[2].gen = 0

\* C16 as stated: within one run of a reader thread, rewinds of a looped
\* video included, each enqueued frame number is larger than the one before.
C16_StrictlyIncreasing ==
    (Len(puts) = 2 /\ puts[1].no = puts[2].no) => puts[2].id < puts[1].id

\* C16 amended: within one run of a reader thread each enqueued frame number
\* is the one before plus one, except that the first frame enqueued after a
\* rewind of a looped video is numbered 0 again.
C16_IncreasingBetweenRewinds ==
    (Len(puts) = 2 /\ puts[1].no = puts[2].no) =>
        IF puts[1].rewound THEN puts[1].id = 0
        ELSE puts[1].id = puts[2].id + 1

\* a looped video has been rewound after its last frame and frame 0 enqueued
C16_Witness ==
    /\ vr.kind = "VideoReader"
    /\ vr.loop
    /\ Len(puts) = 2
    /\ puts[1].no = puts[2].no
    /\ puts[1].rewound
    /\ puts[1].id = 0
    /\ puts[2].id = MaxVideoLen - 1

\* C28 as stated: when change_feed cannot open the new source and raises
\* IOError, the reset signal is not left raised once the error has propagated
\* (a consumer waiting for the reset to finish is then released).
C28_FailedChangeClearsReset ==
    cf.exc = "IOError" => ~vr.reset_event

\* C30 as stated: every frame the decoder yields from a source is enqueued
\* once and in order, so an item's frame_number is the position of its frame
\* in the source and the item enqueued with frame_number 0 is the first frame
\* of the source, for a reader that was constructed and started as for a
\* reader resumed by change_feed.
C30_NoFrameLost ==
    vr.kind = "VideoReader" =>
        \A i \in 1..Len(provider_queue) :
            provider_queue[i][1] = provider_queue[i][2].idx

\* C20: in every state reached by constructing a VideoReader and calling
\* change_feed any number of times, looping is enabled only if the current
\* feed is a video file; a camera feed is never rewound.
C20_CameraNeverLoops ==
    vr.kind = "VideoReader" => (vr.loop => vr.is_video)

---------------------------------------------------------------------------
(* Properties of the consumer, checked under SpecConsumer *)

\* C29 as stated: every pass of BackgroundComputation._run that updates the
\* trackers, plots and display uses a (frame_number, frame) pair obtained by
\* a successful grab_frame in that same pass, each frame being processed
\* once; after a grab that times out with queue.Empty, the first pass
\* included, nothing is processed until the next successful grab.
C29_ProcessesGrabbedFrameOnce ==
    /\ bc.pc # "raised"
    /\ bc.pc = "process" => bc.fresh
    /\ \A i \in 1..Len(shown) : shown[i].fresh
    /\ \A i \in 1..Len(shown), j \in 1..Len(shown) :
           i # j => shown[i].live_frame # shown[j].live_frame

---------------------------------------------------------------------------
(* Properties of the older codec, checked under SpecRaspi *)

\* the payload bytes and the stored CRC of a buffer, as deserialize takes
\* them out (lines 164-176)
RaspiLengthField(raw) == raspi_bytes_to_int(PySlice(raw, 12, 16))
RaspiPayloadPart(raw) == PySlice(raw, 16, 16 + RaspiLengthField(raw))
RaspiCrcField(raw) ==
    raspi_bytes_to_int(PySlice(raw, 16 + RaspiLengthField(raw), 18 + RaspiLengthField(raw)))

\* C31 as stated: of the buffers that reach the CRC check of the older
\* deserialize (right size, protocol version 10, payload that reshapes),
\* every buffer whose stored CRC is the CRC of its payload gives None, in
\* particular every buffer produced by the codec's own serialize, and every
\* buffer whose stored CRC is wrong gives a Packet.
C31_InvertedCrcCheck ==
    rstage = "decoded" /\ rres.kind # "raise" /\ rres.why # "protocol" =>
        /\ rmut = "none" => rres.kind = "none"
        /\ RaspiCrcField(rbuf) = checksum(RaspiPayloadPart(rbuf)) => rres.kind = "none"
        /\ RaspiCrcField(rbuf) # checksum(RaspiPayloadPart(rbuf)) => rres.kind = "packet"

---------------------------------------------------------------------------
(* Liveness of the request handler, checked under SpecFair *)

\* C14: once the halt event is set, the connection handler eventually closes
\* the connection and terminates, whether it waits for a request or for a
\* frame, and also when the client sends nothing more.
C14_HandlerHonoursHalt ==
    [](halt_server_event => <>(socket_closed /\ hpc = "done"))

\* C23 as stated: once the client has closed the connection, so that
\* read_start_word returns None for the closed stream, the handler eventually
\* stops reading and returns (it is no longer in its loop).
C23_ClosedConnectionEndsHandler ==
    [](peer_closed => <>(hpc \notin {"read", "update"}))

=============================================================================
